---- MODULE Spec2Model ----
(***************************************************************************)
(* Loyalty KPI pipelines of latribu-store/analyse-fidelite.                *)
(*                                                                         *)
(*   analyse_fidelite.py : CSV upload -> ticket facts -> DuckDB tables     *)
(*                         (transactions, coupons) -> monthly KPI table.   *)
(*   analyse_KPI.py      : CSV upload -> parquet history (transactions,    *)
(*                         coupons) -> monthly KPI table.                  *)
(*                                                                         *)
(* Conventions of the model                                                *)
(*   - a numeric cell is <<n>> (a parsed number) or <<>> (NaN: what        *)
(*     pd.to_numeric(errors="coerce") makes of an unparsable cell);        *)
(*   - a date is a day number >= 1; NaT is 0; month m holds the days       *)
(*     (m-1)*DaysPerMonth+1 .. m*DaysPerMonth, months are numbered         *)
(*     chronologically (month m-1 is the calendar month before m);         *)
(*   - a DuckDB table is a bag of rows (row order is never read);          *)
(*   - a pandas frame / parquet file is a sequence of rows;                *)
(*   - a ratio n/d is kept as the pair <<n, d>>, NaN is <<>>.              *)
(***************************************************************************)
EXTENDS Integers, Sequences, FiniteSets, Bags, TLC

VARIABLES
    program,        \* which script is deployed: "fidelite" or "KPI"
    runs,           \* number of uploads processed so far
    tx_csv,         \* the transactions file of the current upload (line rows)
    cp_csv,         \* the coupons file of the current upload (coupon rows)
    fact,           \* analyse_fidelite.py: fact = _build_fact_from_transactions(tx_csv)
    transactions,   \* analyse_fidelite.py: DuckDB table transactions
    coupons,        \* analyse_fidelite.py: DuckDB table coupons
    hist_tx,        \* analyse_KPI.py: content of data/transactions.parquet
    hist_cp,        \* analyse_KPI.py: content of data/coupons.parquet
    kpi,            \* the KPI table computed by the last run
    reupload,       \* history: the last run was given the files of the run before it
    tx_cols,        \* the column names of the transactions file of the current upload
    report,         \* the messages the last run showed (st.success / st.warning /
                    \* st.error, or the exception that ended it)
    sheet,          \* the KPI table held by the Google Sheets tab KPI_Mensuels
    unreadable,     \* analyse_KPI.py: pd.read_parquet raises on data/transactions.parquet
    pc,             \* concurrent sessions: where each session stands in its run
    seen,           \* concurrent sessions: existing_ids as each session read it
    batch           \* concurrent sessions: the fact table each session built

vars == <<program, runs, tx_csv, cp_csv, fact, transactions, coupons,
          hist_tx, hist_cp, kpi, reupload, tx_cols, report, sheet, unreadable,
          pc, seen, batch>>

\* the variables of the concurrent sessions
sessions == <<pc, seen, batch>>

(***************************************************************************)
(* Bounds of the model                                                     *)
(***************************************************************************)
MaxRuns == 3
NumMonths == 3
DaysPerMonth == 2
MaxAggLines == 3

(***************************************************************************)
(* Cells, dates, generic helpers                                           *)
(***************************************************************************)
NaN == <<>>
NaT == 0

Num(n) == <<n>>
IsNum(c) == c # NaN
Val(c) == c[1]

\* pd.to_datetime(...).dt.to_period("M") of a day number; NaT stays NaT
_month_str(d) == IF d = NaT THEN NaT ELSE ((d - 1) \div DaysPerMonth) + 1

RECURSIVE SumSeq(_)
SumSeq(s) == IF s = <<>> THEN 0 ELSE Head(s) + SumSeq(Tail(s))

RECURSIVE SumSet(_, _)
\* sum of f[x] over the finite set S
SumSet(S, f) ==
    IF S = {} THEN 0
    ELSE LET x == CHOOSE y \in S : TRUE IN f[x] + SumSet(S \ {x}, f)

SetMax(S) == CHOOSE x \in S : \A y \in S : y <= x
SetMin(S) == CHOOSE x \in S : \A y \in S : x <= y

\* pandas Series.sum(): NaN cells are skipped, the sum of nothing is 0
NanSum(cells) == SumSeq([i \in DOMAIN cells |-> IF IsNum(cells[i]) THEN Val(cells[i]) ELSE 0])

\* pandas Series.max(): NaN cells are skipped, the max of nothing is NaN
NanMax(cells) ==
    LET nums == {Val(cells[i]) : i \in {j \in DOMAIN cells : IsNum(cells[j])}}
    IN IF nums = {} THEN NaN ELSE Num(SetMax(nums))

(***************************************************************************)
(* Values of the uploaded files.  A transactions line is a record          *)
(*   [TicketNumber, TotalAmount, Label, ValidationDate, OrganisationId,    *)
(*    CustomerId, LineGrossAmount, lineTotalPurchasingAmount, Quantity]    *)
(* and a coupons row is a record                                           *)
(*   [CouponId, OrganisationId, CreationDate, UseDate, InitialValue,       *)
(*    Amount].                                                             *)
(***************************************************************************)
Orgs == {"S1", "S2"}
Customers == {"A", "B"}

\* labels of a line, and what .str.upper().str.contains("COUPON") answers
Labels == {"", "CB", "COUPON", "coupon", "BON COUPON 5"}
UpperContainsCoupon(label) == label \in {"COUPON", "coupon", "BON COUPON 5"}

\* CustomerID cells that .replace(["", "nan", "none", "NaN", "None"], np.nan)
\* turns into a missing customer; the table stores str(nan) = "nan" for them
MissingCustomer == {"", "nan", "none", "NaN", "None"}

Months == 1 .. NumMonths
FirstDay(m) == (m - 1) * DaysPerMonth + 1

Line(id, total, label, date, org, cust, gross, cost, qty) ==
    [TicketNumber |-> id, TotalAmount |-> total, Label |-> label,
     ValidationDate |-> date, OrganisationId |-> org, CustomerId |-> cust,
     LineGrossAmount |-> gross, lineTotalPurchasingAmount |-> cost,
     Quantity |-> qty]

(***************************************************************************)
(* analyse_fidelite.py: _build_fact_from_transactions                      *)
(***************************************************************************)
\* the lines of one ticket, in file order (one groupby(c_txid) group)
LinesOf(tx, id) == SelectSeq(tx, LAMBDA l : l.TicketNumber = id)

\* one column of a group of lines, in file order
Column(rows, col) == [i \in DOMAIN rows |-> rows[i][col]]

\* a faulty variant of CA_TTC_Of: the ticket total summed over the lines
CA_TTC_Summed(rows) == Num(NanSum(Column(rows, "TotalAmount")))

\* tx.groupby(c_txid)[c_total].max()
CA_TTC_Of(rows) == NanMax(Column(rows, "TotalAmount"))

\* tx.groupby(c_txid)[c_gross].sum()
CA_HT_Of(rows) == NanSum(Column(rows, "LineGrossAmount"))

\* tx.groupby(c_txid)[c_cost].sum()
Purch_Total_HT_Of(rows) == NanSum(Column(rows, "lineTotalPurchasingAmount"))

\* quantity per ticket: the sum of Quantity when the file has any parsed
\* Quantity, the number of lines of the ticket otherwise
Qty_Ticket_Of(tx, rows) ==
    IF \E i \in DOMAIN tx : IsNum(tx[i].Quantity)
    THEN NanSum(Column(rows, "Quantity"))
    ELSE Len(rows)

\* _lbl.str.contains("COUPON").any() over the ticket's lines
Has_Coupon_Of(rows) == \E i \in DOMAIN rows : UpperContainsCoupon(rows[i].Label)

\* CustomerID after .astype(str).str.strip().replace([...], np.nan)
CleanCustomer(c) == IF c \in MissingCustomer THEN "nan" ELSE c

\* a faulty variant of FactRow: the margin forgets the purchasing cost
FactRow_GrossMargin(tx, id) ==
    LET rows == LinesOf(tx, id)
        ctx == rows[1]
        cust == CleanCustomer(ctx.CustomerId)
        ca_ht == CA_HT_Of(rows)
        cost == Purch_Total_HT_Of(rows)
        has == Has_Coupon_Of(rows)
    IN [TransactionID |-> id,
        ValidationDate |-> ctx.ValidationDate,
        month |-> _month_str(ctx.ValidationDate),
        OrganisationID |-> ctx.OrganisationId,
        CustomerID |-> cust,
        is_client |-> cust # "nan",
        CA_TTC |-> CA_TTC_Of(rows),
        CA_HT |-> ca_ht,
        Purch_Total_HT |-> cost,
        Qty_Ticket |-> Qty_Ticket_Of(tx, rows),
        Has_Coupon |-> has,
        CA_paid_with_coupons_HT |-> IF has THEN ca_ht ELSE 0,
        Estimated_Net_Margin_HT |-> ca_ht]

\* one row of fact: the aggregates of the ticket merged with ctx, the
\* context of its first line (drop_duplicates(subset=[c_txid]) keeps the first)
FactRow(tx, id) ==
    LET rows == LinesOf(tx, id)
        ctx == rows[1]
        cust == CleanCustomer(ctx.CustomerId)
        ca_ht == CA_HT_Of(rows)
        cost == Purch_Total_HT_Of(rows)
        has == Has_Coupon_Of(rows)
    IN [TransactionID |-> id,
        ValidationDate |-> ctx.ValidationDate,
        month |-> _month_str(ctx.ValidationDate),
        OrganisationID |-> ctx.OrganisationId,
        CustomerID |-> cust,
        is_client |-> cust # "nan",
        CA_TTC |-> CA_TTC_Of(rows),
        CA_HT |-> ca_ht,
        Purch_Total_HT |-> cost,
        Qty_Ticket |-> Qty_Ticket_Of(tx, rows),
        Has_Coupon |-> has,
        CA_paid_with_coupons_HT |-> IF has THEN ca_ht ELSE 0,
        Estimated_Net_Margin_HT |-> ca_ht - cost]

\* fact: one row per distinct TicketNumber of the file (the row order, that
\* of the sorted keys, is never read: fact is kept as a set)
_build_fact_from_transactions(tx) ==
    {FactRow(tx, id) : id \in {tx[i].TicketNumber : i \in DOMAIN tx}}

(***************************************************************************)
(* analyse_fidelite.py: _build_coupon_table                                *)
(***************************************************************************)
\* pd.to_numeric(..., errors="coerce").fillna(0)
FillZero(c) == IF IsNum(c) THEN Val(c) ELSE 0

Clip0(n) == IF n < 0 THEN 0 ELSE n

CouponRow(c) ==
    [CouponID |-> c.CouponId,
     OrganisationID |-> c.OrganisationId,
     UseDate |-> c.UseDate,
     EmissionDate |-> c.CreationDate,
     month_use |-> _month_str(c.UseDate),
     month_emit |-> _month_str(c.CreationDate),
     Amount_Initial |-> FillZero(c.InitialValue),
     Amount_Remaining |-> FillZero(c.Amount),
     Value_Used_Line |-> Clip0(FillZero(c.InitialValue) - FillZero(c.Amount))]

\* one normalized row per row of the file, in file order
_build_coupon_table(cp) == [i \in DOMAIN cp |-> CouponRow(cp[i])]

(***************************************************************************)
(* analyse_fidelite.py: the DuckDB tables                                  *)
(***************************************************************************)
\* the bag holding each row of a frame once per occurrence
RECURSIVE SeqToBag(_)
SeqToBag(s) == IF s = <<>> THEN EmptyBag ELSE SetToBag({Head(s)}) (+) SeqToBag(Tail(s))

\* SELECT TransactionID FROM transactions
existing_ids(table) == {r.TransactionID : r \in BagToSet(table)}

\* new_fact = df.loc[~df["TransactionID"].isin(existing_ids)]
new_fact(table, fact_df) == {r \in fact_df : r.TransactionID \notin existing_ids(table)}

\* a faulty variant of AppendRaises: the table is created without a key
AppendRaises_NoKey(table, rows) == FALSE

\* con.append on a table whose TransactionID is PRIMARY KEY raises (and
\* appends nothing) when a row's key is already stored or repeated
AppendRaises(table, rows) ==
    \/ \E r \in rows : r.TransactionID \in existing_ids(table)
    \/ \E r1, r2 \in rows : r1 # r2 /\ r1.TransactionID = r2.TransactionID

\* a faulty variant of upsert_transactions: every row of the batch is
\* appended to a table that enforces no key
upsert_append_all(table, fact_df) == table (+) SetToBag(fact_df)

\* a faulty variant of upsert_transactions: a stored row whose key is in the
\* batch is replaced by the batch's row
upsert_replace(table, fact_df) ==
    LET ids == {r.TransactionID : r \in fact_df}
        kept == {r \in BagToSet(table) : r.TransactionID \notin ids}
    IN SetToBag(kept) (+) SetToBag(fact_df)

\* the transactions table after upsert_transactions(con, fact_df).  cols_db
\* (lines 176-181) is taken to list the column names of the table that
\* init_duckdb created, so that the guard on "TransactionID" passes and every
\* column of the batch is kept; the type casts leave the modelled values as
\* they are
upsert_transactions(table, fact_df) ==
    IF fact_df = {} THEN table
    ELSE LET nf == new_fact(table, fact_df)
         IN IF nf = {} THEN table
            ELSE IF AppendRaises(table, nf) THEN table
            ELSE table (+) SetToBag(nf)

\* upsert_transactions ends in DuckDB's constraint exception
upsert_raises(table, fact_df) ==
    /\ new_fact(table, fact_df) # {}
    /\ AppendRaises(table, new_fact(table, fact_df))

\* the coupons table after append_coupons(con, cp_df): the table has no key
append_coupons(table, cp_df) ==
    IF Len(cp_df) = 0 THEN table ELSE table (+) SeqToBag(cp_df)

(***************************************************************************)
(* analyse_fidelite.py: compute_kpi                                        *)
(***************************************************************************)
\* sum of val[r] over the rows of a bag, each counted once per copy
BagSum(B, val) == SumSet(BagToSet(B), [r \in BagToSet(B) |-> val[r] * CopiesIn(r, B)])

\* the rows of bag B that lie in Keep, with their copies
BagSelect(B, Keep) == [r \in (BagToSet(B) \cap Keep) |-> CopiesIn(r, B)]

\* np.where(cond, num / den, np.nan) on cells: NaN when the guard fails or
\* when the numerator or the denominator is NaN
Ratio(cond, num, den) ==
    IF cond /\ IsNum(num) /\ IsNum(den) THEN <<Val(num), Val(den)>> ELSE NaN

\* the guard  kpi[col] > 0  on a cell (a comparison with NaN is False)
Positive(c) == IsNum(c) /\ Val(c) > 0

\* the rows of group (m, o) of the transactions table
GroupRows(T, m, o) ==
    BagSelect(T, {r \in BagToSet(T) : r.month = m /\ r.OrganisationID = o})

\* tx_clients restricted to group (m, o)
ClientRows(T, m, o) == BagSelect(GroupRows(T, m, o), {r \in BagToSet(T) : r.is_client})

\* cust_sets: CustSet of the row (m, o), the customers of its client tickets
CustSet(T, m, o) == {r.CustomerID : r \in BagToSet(ClientRows(T, m, o))}

\* the months of the rows of cust_sets of organisation o
ClientMonths(T, o) == {r.month : r \in {x \in BagToSet(T) : x.is_client /\ x.OrganisationID = o}}

\* a faulty variant of Prev: the previous row is taken over the rows of
\* every organisation (shift(1) without groupby("OrganisationID"))
PrevAllOrgs(T, m, o) ==
    LET earlier == {r.month : r \in {x \in BagToSet(T) : x.is_client /\ x.month < m}}
    IN IF earlier = {} THEN {}
       ELSE {r.CustomerID : r \in {x \in BagToSet(T) : x.is_client /\ x.month = SetMax(earlier)}}

\* cust_sets["Prev"]: sort_values(["OrganisationID","_order"]) then
\* groupby("OrganisationID")["CustSet"].shift(1): the CustSet of the previous
\* row of the same organisation, {} standing for the NaN of its first row
Prev(T, m, o) ==
    LET earlier == {m2 \in ClientMonths(T, o) : m2 < m}
    IN IF earlier = {} THEN {} ELSE CustSet(T, SetMax(earlier), o)

\* a faulty variant of Retention_rate_Of: the intersection with Prev is
\* forgotten, the current customers are divided by the previous ones
Retention_rate_NoIntersection(T, m, o) ==
    LET prev == Prev(T, m, o)
        cur == CustSet(T, m, o)
    IN IF cur = {} THEN NaN
       ELSE IF Cardinality(prev) > 0
            THEN <<Cardinality(cur), Cardinality(prev)>>
            ELSE NaN

\* Retention_rate of the row (m, o): NaN when the group has no client ticket
\* (left merge) or when Prev is not a non-empty set
Retention_rate_Of(T, m, o) ==
    LET prev == Prev(T, m, o)
        cur == CustSet(T, m, o)
    IN IF cur = {} THEN NaN
       ELSE IF Cardinality(prev) > 0
            THEN <<Cardinality(prev \cap cur), Cardinality(prev)>>
            ELSE NaN

\* first_seen: the earliest ValidationDate of a customer over the table
FirstDate(T, c) ==
    SetMin({r.ValidationDate : r \in {x \in BagToSet(T) : x.is_client /\ x.CustomerID = c}})

\* a faulty variant of NewCustomers: the first ticket of a customer is looked
\* up among the tickets of the row's organisation only
NewCustomers_PerOrganisation(T, m, o) ==
    {c \in CustSet(T, m, o) :
        m = SetMin({r.month : r \in {x \in BagToSet(T) :
                       x.is_client /\ x.CustomerID = c /\ x.OrganisationID = o}})}

\* the customers of group (m, o) with IsNewThisMonth
NewCustomers(T, m, o) == {c \in CustSet(T, m, o) : _month_str(FirstDate(T, c)) = m}

\* coupons.dropna(subset=["UseDate"]) of group (m, o)
UsedCoupons(C, m, o) ==
    BagSelect(C, {c \in BagToSet(C) : c.UseDate # NaT /\ c.month_use = m /\ c.OrganisationID = o})

\* coupons.dropna(subset=["EmissionDate"]) of group (m, o)
EmittedCoupons(C, m, o) ==
    BagSelect(C, {c \in BagToSet(C) : c.EmissionDate # NaT /\ c.month_emit = m /\ c.OrganisationID = o})

\* a column of a left-merged frame: NaN when the group has no row in it
Merged(present, n) == IF present THEN Num(n) ELSE NaN

KpiRow(T, C, m, o) ==
    LET g == GroupRows(T, m, o)
        gs == BagToSet(g)
        cli == ClientRows(T, m, o)
        non == BagSelect(g, {r \in BagToSet(g) : ~r.is_client})
        avec == BagSelect(g, {r \in BagToSet(g) : r.Has_Coupon})
        sans == BagSelect(g, {r \in BagToSet(g) : ~r.Has_Coupon})
        ids(B) == {r.TransactionID : r \in BagToSet(B)}
        ht(B) == BagSum(B, [r \in BagToSet(B) |-> r.CA_HT])
        hasCli == BagToSet(cli) # {}
        used == UsedCoupons(C, m, o)
        emis == EmittedCoupons(C, m, o)
        hasUsed == BagToSet(used) # {}
        hasEmis == BagToSet(emis) # {}
        ca_ttc == BagSum(g, [r \in gs |-> FillZero(r.CA_TTC)])
        ca_ht == ht(g)
        transactions_n == Cardinality(ids(g))
        qty_total == BagSum(g, [r \in gs |-> r.Qty_Ticket])
        tx_client == Merged(hasCli, Cardinality(ids(cli)))
        client == Cardinality(CustSet(T, m, o))
        nouveau == Cardinality(NewCustomers(T, m, o))
        ca_coupons == BagSum(g, [r \in gs |-> r.CA_paid_with_coupons_HT])
        coupon_utilise == Merged(hasUsed, Cardinality({c.CouponID : c \in BagToSet(used)}))
        montant_utilise == Merged(hasUsed, BagSum(used, [c \in BagToSet(used) |-> c.Value_Used_Line]))
        coupon_emis == Merged(hasEmis, Cardinality({c.CouponID : c \in BagToSet(emis)}))
        montant_emis == Merged(hasEmis, BagSum(emis, [c \in BagToSet(emis) |-> c.Amount_Initial]))
        marge_avant == BagSum(g, [r \in gs |-> r.CA_HT - r.Purch_Total_HT])
        marge_apres == marge_avant - FillZero(montant_utilise)
    IN [month |-> m,
        OrganisationID |-> o,
        CA_TTC |-> ca_ttc,
        CA_HT |-> ca_ht,
        CA_paid_with_coupons |-> ca_coupons,
        Coupon_emis |-> coupon_emis,
        Coupon_utilise |-> coupon_utilise,
        Montant_coupons_emis |-> montant_emis,
        Montant_coupons_utilise |-> montant_utilise,
        Transactions |-> transactions_n,
        Transactions_client |-> tx_client,
        Client |-> Merged(hasCli, client),
        Nouveau_client |-> Merged(hasCli, nouveau),
        Client_qui_reviennent |-> Merged(hasCli, client - nouveau),
        Recurrence |-> Ratio(hasCli /\ client > 0, Num(Cardinality(ids(cli))), Num(client)),
        Retention_rate |-> Retention_rate_Of(T, m, o),
        Taux_association_client |-> Ratio(transactions_n > 0, tx_client, Num(transactions_n)),
        Marge_avant_coupon |-> marge_avant,
        Marge_apres_coupon |-> marge_apres,
        Taux_marge_avant |-> Ratio(ca_ht > 0, Num(marge_avant), Num(ca_ht)),
        Taux_marge_apres |-> Ratio(ca_ht > 0, Num(marge_apres), Num(ca_ht)),
        ROI_Proxy |-> Ratio(Positive(montant_utilise),
                            Num(ca_coupons - FillZero(montant_utilise)), montant_utilise),
        Panier_moyen_HT |-> Ratio(transactions_n > 0, Num(ca_ht), Num(transactions_n)),
        Panier_moyen_client |-> Ratio(hasCli, Num(ht(cli)), Num(Cardinality(ids(cli)))),
        Panier_moyen_non_client |-> Ratio(BagToSet(non) # {}, Num(ht(non)), Num(Cardinality(ids(non)))),
        Panier_moyen_sans_coupon |-> Ratio(BagToSet(sans) # {}, Num(ht(sans)), Num(Cardinality(ids(sans)))),
        Panier_moyen_avec_coupon |-> Ratio(BagToSet(avec) # {}, Num(ht(avec)), Num(Cardinality(ids(avec)))),
        Taux_utilisation_bons_montant |-> Ratio(Positive(montant_emis), montant_utilise, montant_emis),
        Taux_utilisation_bons_quantite |-> Ratio(Positive(coupon_emis), coupon_utilise, coupon_emis),
        Taux_CA_bons_sur_CA_HT |-> Ratio(ca_ht > 0, Num(ca_coupons), Num(ca_ht)),
        Voucher_share |-> Ratio(ca_ht > 0, Num(ca_coupons), Num(ca_ht)),
        Prix_moyen_article |-> Ratio(qty_total > 0, Num(ca_ht), Num(qty_total)),
        Quantite_moyenne_par_transaction |-> <<qty_total, BagCardinality(g)>>]

\* the KPI table: one row per (month, OrganisationID) group of the
\* transactions table, empty when the table is empty
compute_kpi(T, C) ==
    {KpiRow(T, C, g[1], g[2]) : g \in {<<r.month, r.OrganisationID>> : r \in BagToSet(T)}}

(***************************************************************************)
(* analyse_KPI.py: the parquet history and its KPI table                   *)
(***************************************************************************)
\* steps 3: the uploaded lines mapped to TX_COLS (ProductID, which no KPI
\* reads, is left out), numbers filled with 0.0, lines without a date dropped
TxRow(l) ==
    [TransactionID |-> l.TicketNumber,
     ValidationDate |-> l.ValidationDate,
     OrganisationID |-> l.OrganisationId,
     CustomerID |-> l.CustomerId,
     Label |-> l.Label,
     CA_TTC |-> FillZero(l.TotalAmount),
     CA_HT |-> FillZero(l.LineGrossAmount),
     Purch_Total_HT |-> FillZero(l.lineTotalPurchasingAmount),
     Qty_Ticket |-> FillZero(l.Quantity)]

map_tx(tx) ==
    SelectSeq([i \in DOMAIN tx |-> TxRow(tx[i])], LAMBDA r : r.ValidationDate # NaT)

\* step 4: the uploaded coupons mapped to CP_COLS.  With the columns of the
\* Keyneo export (CouponId, OrganisationId, CreationDate, UseDate,
\* InitialValue, Amount) pick() finds couponid, organisationid, usedate and,
\* for Amount_Initial, amount; EmissionDate, Amount_Remaining and
\* Value_Used_Line find no column and get "" (NaT, 0.0, 0.0)
CpRow(c) ==
    [CouponID |-> c.CouponId,
     OrganisationID |-> c.OrganisationId,
     EmissionDate |-> NaT,
     UseDate |-> c.UseDate,
     Amount_Initial |-> FillZero(c.Amount),
     Amount_Remaining |-> 0,
     Value_Used_Line |-> 0]

map_cp(cp) == [i \in DOMAIN cp |-> CpRow(cp[i])]

\* DataFrame.drop_duplicates(subset=["TransactionID"], keep="first")
drop_duplicates_first(df) ==
    SelectSeq([i \in DOMAIN df |->
                  IF \E j \in 1 .. (i - 1) : df[j].TransactionID = df[i].TransactionID
                  THEN <<>> ELSE <<df[i]>>],
              LAMBDA x : x # <<>>)

\* DataFrame.drop_duplicates(subset=["TransactionID"], keep="last")
drop_duplicates_last(df) ==
    SelectSeq([i \in DOMAIN df |->
                  IF \E j \in (i + 1) .. Len(df) : df[j].TransactionID = df[i].TransactionID
                  THEN <<>> ELSE <<df[i]>>],
              LAMBDA x : x # <<>>)

Unwrap(s) == [i \in DOMAIN s |-> s[i][1]]

\* a faulty variant of full_tx_Of: the history is appended without any
\* deduplication
full_tx_NoDedup(hist, tx) == hist \o map_tx(tx)

\* step 5: full_tx = pd.concat([hist_tx, tx]).drop_duplicates(keep="last")
full_tx_Of(hist, tx) == Unwrap(drop_duplicates_last(hist \o map_tx(tx)))

\* ticket_client: the tickets whose CustomerID is neither NaN nor "" (an
\* empty cell is read as NaN; "" stands for both)
IsTicketClient(r) == r.CustomerID # ""

\* step 6: ticket = df.drop_duplicates(subset=["TransactionID"]) with month,
\* CA_HT_ticket and CA_TTC_ticket (the sums over the rows of the ticket in df)
TicketBag(full) ==
    LET ticket == Unwrap(drop_duplicates_first(full))
        same(i) == SelectSeq(full, LAMBDA r : r.TransactionID = ticket[i].TransactionID)
    IN SeqToBag([i \in DOMAIN ticket |->
        [TransactionID |-> ticket[i].TransactionID,
         ValidationDate |-> ticket[i].ValidationDate,
         month |-> _month_str(ticket[i].ValidationDate),
         OrganisationID |-> ticket[i].OrganisationID,
         CustomerID |-> ticket[i].CustomerID,
         is_client |-> IsTicketClient(ticket[i]),
         CA_TTC |-> SumSeq(Column(same(i), "CA_TTC")),
         CA_HT |-> SumSeq(Column(same(i), "CA_HT")),
         Purch_Total_HT |-> ticket[i].Purch_Total_HT]])

\* Period("M").astype(str) of a month: the text of the month column
MonthText(m) ==
    <<"2024-01", "2024-02", "2024-03", "2024-04", "2024-05", "2024-06",
      "2024-07", "2024-08", "2024-09", "2024-10", "2024-11", "2024-12">>[m]

\* min_month: groupby("CustomerID")["month"].min() over ticket_client, the
\* earliest month of customer c in any organisation
first_month(T, c) ==
    SetMin({r.month : r \in {x \in BagToSet(T) : x.is_client /\ x.CustomerID = c}})

\* a faulty variant of SeriesNameHead: the slice handed to the function is
\* named after its group key (month, OrganisationID), as groupby.apply does
SeriesNameHead_GroupKey(m, o) == MonthText(m)

\* s.name[0] inside the function of Nouveau_client=("first_month", lambda s:
\* ...): agg hands the function each group's slice of the column, whose name
\* is the column's name "first_month"; s.name[0] is its first character
SeriesNameHead(m, o) == "f"

\* (s == s.name[0]).sum() over the rows of ticket_client of group (m, o)
Nouveau_client_Of(T, m, o) ==
    BagCardinality(BagSelect(ClientRows(T, m, o),
        {r \in BagToSet(T) : r.is_client
                              /\ MonthText(first_month(T, r.CustomerID)) = SeriesNameHead(m, o)}))

\* df_cp.dropna(subset=["UseDate"]) of group (m, o) of the uploaded coupons
coupons_used(cp, m, o) ==
    SelectSeq(cp, LAMBDA c : c.UseDate # NaT /\ _month_str(c.UseDate) = m /\ c.OrganisationID = o)

\* df_cp.dropna(subset=["EmissionDate"]) of group (m, o)
coupons_emis(cp, m, o) ==
    SelectSeq(cp, LAMBDA c : c.EmissionDate # NaT /\ _month_str(c.EmissionDate) = m
                             /\ c.OrganisationID = o)

\* one row of the KPI table of analyse_KPI.py: the base columns, and the
\* columns of new_ret, ret, coupons_used and coupons_emis left-merged onto it
KpiRowKPI(full, cp, m, o) ==
    LET T == TicketBag(full)
        g == GroupRows(T, m, o)
        gs == BagToSet(g)
        ca_ht == BagSum(g, [r \in gs |-> r.CA_HT])
        purch == BagSum(g, [r \in gs |-> r.Purch_Total_HT])
        hasCli == BagToSet(ClientRows(T, m, o)) # {}
        clients == Cardinality(CustSet(T, m, o))
        nouveau == Nouveau_client_Of(T, m, o)
        used == coupons_used(cp, m, o)
        emis == coupons_emis(cp, m, o)
    IN [month |-> m,
        OrganisationID |-> o,
        CA_TTC |-> BagSum(g, [r \in gs |-> r.CA_TTC]),
        CA_HT |-> ca_ht,
        Total_achats_HT |-> purch,
        Marge_brute |-> ca_ht - purch,
        Taux_marge |-> Ratio(ca_ht # 0, Num(ca_ht - purch), Num(ca_ht)),
        Transactions |-> Cardinality({r.TransactionID : r \in gs}),
        Clients |-> Merged(hasCli, clients),
        Nouveau_client |-> Merged(hasCli, nouveau),
        Client_qui_reviennent |-> Merged(hasCli, clients - nouveau),
        Retention_rate |-> Retention_rate_Of(T, m, o),
        Coupon_utilise |-> Merged(used # <<>>, Cardinality({used[i].CouponID : i \in DOMAIN used})),
        Montant_coupons_utilise |-> Merged(used # <<>>, SumSeq(Column(used, "Value_Used_Line"))),
        Coupon_emis |-> Merged(emis # <<>>, Cardinality({emis[i].CouponID : i \in DOMAIN emis})),
        Montant_coupons_emis |-> Merged(emis # <<>>, SumSeq(Column(emis, "Amount_Initial")))]

\* the KPI table of a pass: full is the merged history, cp the coupons
\* mapped from the upload of the pass
kpi_KPI(full, cp) ==
    {KpiRowKPI(full, cp, g[1], g[2]) :
        g \in {<<_month_str(full[i].ValidationDate), full[i].OrganisationID>> : i \in DOMAIN full}}

\* a faulty variant of save_cp: the upload is appended to the stored coupons
save_cp_Appended(stored, cp) == stored \o cp

\* save_parquet(cp, CP_PATH): coupons.parquet is overwritten with the mapped
\* coupons of the upload, whatever it held
save_cp(stored, cp) == cp

(***************************************************************************)
(* The uploads the specifications draw from                                *)
(***************************************************************************)
\* Spec: two tickets, each in two versions that differ in every field
StoreLines ==
    {Line(id, Num(50), "", FirstDay(1), "S1", "A", Num(40), Num(25), Num(2)) : id \in {"T1", "T2"}}
    \cup
    {Line(id, Num(70), "COUPON", FirstDay(2), "S1", "", Num(60), Num(30), Num(1)) : id \in {"T1", "T2"}}

\* the empty export, the exports of one line, and those of one line of T1
\* followed by one line of T2
StoreTxFiles ==
    {<<>>} \cup {<<a>> : a \in StoreLines}
    \cup {<<a, b>> : a \in {l \in StoreLines : l.TicketNumber = "T1"},
                     b \in {l \in StoreLines : l.TicketNumber = "T2"}}

Coupon(id, org, created, used, init, amount) ==
    [CouponId |-> id, OrganisationId |-> org, CreationDate |-> created,
     UseDate |-> used, InitialValue |-> init, Amount |-> amount]

\* Spec: one coupon, as emitted (unused) and after it paid 6 of its 10
StoreCoupons ==
    {Coupon("K1", "S1", FirstDay(1), NaT, Num(10), Num(10)),
     Coupon("K1", "S1", FirstDay(1), FirstDay(2), Num(10), Num(4))}

StoreCpFiles == {<<>>} \cup {<<c>> : c \in StoreCoupons}

(***************************************************************************)
(* The steps of a run that can end it: missing columns, failing calls      *)
(***************************************************************************)
\* the columns _build_fact_from_transactions looks up with _pick_exact
TxColumns ==
    {"TicketNumber", "TotalAmount", "Label", "ValidationDate", "OrganisationId",
     "CustomerId", "LineGrossAmount", "lineTotalPurchasingAmount", "Quantity"}

\* need = [c_txid, c_total, c_valid, c_org, c_gross, c_cost]
need ==
    {"TicketNumber", "TotalAmount", "ValidationDate", "OrganisationId",
     "LineGrossAmount", "lineTotalPurchasingAmount"}

\* a faulty variant of need_missing: the check on the columns is skipped
need_missing_Skipped(cols) == FALSE

\* any(c is None for c in need)
need_missing(cols) == \E c \in need : c \notin cols

\* one message of a run; columns is the column list an st.error quotes
Msg(level, step, columns) == [level |-> level, step |-> step, columns |-> columns]

\* the call of step 3 of analyse_fidelite.py that raises, "none" when both
\* tables are written: upsert_transactions raises DuckDB's constraint
\* exception, or its con.append is made to fail; append_coupons' con.append
\* is made to fail.  Neither function calls con.append for an empty frame
duckdb_raised(T, fact_df, cp_df, env) ==
    IF upsert_raises(T, fact_df) \/ (env = "upsert_transactions" /\ new_fact(T, fact_df) # {})
    THEN "upsert_transactions"
    ELSE IF env = "append_coupons" /\ Len(cp_df) > 0 THEN "append_coupons"
    ELSE "none"

\* a faulty variant of duckdb_after: a failed publication undoes the merge
duckdb_after_UndoneByPublish(T, C, fact_df, cp_df, env) ==
    IF env = "publish" \/ duckdb_raised(T, fact_df, cp_df, env) # "none"
    THEN <<T, C>>
    ELSE <<upsert_transactions(T, fact_df), append_coupons(C, cp_df)>>

\* the tables transactions and coupons after step 3 of analyse_fidelite.py:
\* each con.append commits on its own, a call that raises writes nothing and
\* no later call is made
duckdb_after(T, C, fact_df, cp_df, env) ==
    IF duckdb_raised(T, fact_df, cp_df, env) = "upsert_transactions" THEN <<T, C>>
    ELSE IF duckdb_raised(T, fact_df, cp_df, env) = "append_coupons"
    THEN <<upsert_transactions(T, fact_df), C>>
    ELSE <<upsert_transactions(T, fact_df), append_coupons(C, cp_df)>>

\* load_parquet(TX_PATH, TX_COLS): the stored frame, or an empty frame when
\* pd.read_parquet raises
load_parquet(raises, stored) == IF raises THEN <<>> ELSE stored

\* the concurrent sessions of the Streamlit application
Sessions == {"s1", "s2"}

(***************************************************************************)
(* State machine                                                           *)
(***************************************************************************)
Init ==
    /\ program \in {"fidelite", "KPI"}
    /\ runs = 0
    /\ tx_csv = <<>>
    /\ cp_csv = <<>>
    /\ fact = {}
    /\ transactions = EmptyBag
    /\ coupons = EmptyBag
    /\ hist_tx = <<>>
    /\ hist_cp = <<>>
    /\ kpi = {}
    /\ reupload = FALSE
    /\ tx_cols = {}
    /\ report = {}
    /\ sheet = {}
    /\ unreadable = FALSE
    /\ pc = [p \in Sessions |-> "idle"]
    /\ seen = [p \in Sessions |-> {}]
    /\ batch = [p \in Sessions |-> {}]

\* analyse_fidelite.py, "if file_tx and file_cp:": one pass of the script on
\* the uploaded files, the transactions file having the columns cols.  env
\* names the call that the environment makes raise in this pass ("none" when
\* every call succeeds).  st.stop() and an uncaught exception (DuckDB's
\* constraint exception included) end the script where they occur
RunFideliteIO(tx, cols, cp, env) ==
    /\ program = "fidelite"
    /\ runs' = runs + 1
    /\ tx_csv' = tx
    /\ cp_csv' = cp
    /\ tx_cols' = cols
    /\ reupload' = (runs >= 1 /\ tx = tx_csv /\ cp = cp_csv)
    /\ IF need_missing(cols)
       THEN /\ report' = {Msg("error", "columns", cols)}
            /\ UNCHANGED <<fact, transactions, coupons, kpi, sheet>>
       ELSE /\ fact' = _build_fact_from_transactions(tx)
            /\ transactions' = duckdb_after(transactions, coupons, fact', _build_coupon_table(cp), env)[1]
            /\ coupons' = duckdb_after(transactions, coupons, fact', _build_coupon_table(cp), env)[2]
            /\ IF duckdb_raised(transactions, fact', _build_coupon_table(cp), env) # "none"
               THEN /\ report' = {Msg("exception",
                                      duckdb_raised(transactions, fact', _build_coupon_table(cp), env), {})}
                    /\ UNCHANGED <<kpi, sheet>>
               ELSE /\ kpi' = compute_kpi(transactions', coupons')
                    /\ IF kpi' = {}
                       THEN /\ report' = {Msg("success", "upsert", {}), Msg("warning", "compute_kpi", {})}
                            /\ UNCHANGED sheet
                       ELSE IF env = "publish"
                       THEN /\ report' = {Msg("success", "upsert", {}), Msg("exception", "publish", {})}
                            /\ sheet' \in {sheet, {}}
                       ELSE /\ report' = {Msg("success", "upsert", {}), Msg("success", "publish", {})}
                            /\ sheet' = kpi'
    /\ UNCHANGED <<program, hist_tx, hist_cp, unreadable, sessions>>

\* a pass of analyse_fidelite.py in which every column is present and no call
\* of the environment raises
RunFidelite(tx, cp) == RunFideliteIO(tx, TxColumns, cp, "none")

\* analyse_KPI.py, "with tab_fid: if file_tx and file_cp:": one pass of the
\* script on the uploaded files.  env names the call that the environment
\* makes raise in this pass, or "no_click" when the Google Sheets button is
\* not pressed
RunKPIIO(tx, cp, env) ==
    /\ program = "KPI"
    /\ runs' = runs + 1
    /\ tx_csv' = tx
    /\ cp_csv' = cp
    /\ tx_cols' = TxColumns
    /\ reupload' = (runs >= 1 /\ tx = tx_csv /\ cp = cp_csv)
    /\ IF env = "save_tx"
       THEN /\ report' = {Msg("exception", "save_tx", {})}
            /\ UNCHANGED <<hist_tx, hist_cp, unreadable, kpi, sheet>>
       ELSE /\ hist_tx' = full_tx_Of(load_parquet(unreadable, hist_tx), tx)
            /\ unreadable' = FALSE
            /\ IF env = "save_cp"
               THEN /\ report' = {Msg("exception", "save_cp", {})}
                    /\ UNCHANGED <<hist_cp, kpi, sheet>>
               ELSE /\ hist_cp' = save_cp(hist_cp, map_cp(cp))
                    /\ kpi' = kpi_KPI(hist_tx', map_cp(cp))
                    /\ IF env = "publish"
                       THEN /\ report' = {Msg("success", "save", {}), Msg("error", "publish", {})}
                            /\ sheet' \in {sheet, {}}
                       ELSE IF env = "no_click"
                       THEN /\ report' = {Msg("success", "save", {})}
                            /\ UNCHANGED sheet
                       ELSE /\ report' = {Msg("success", "save", {}), Msg("success", "publish", {})}
                            /\ sheet' = kpi'
    /\ UNCHANGED <<program, fact, transactions, coupons, sessions>>

\* a pass of analyse_KPI.py in which no call of the environment raises and
\* the Google Sheets button is pressed
RunKPI(tx, cp) == RunKPIIO(tx, cp, "none")

UploadFidelite ==
    /\ runs < MaxRuns
    /\ \E tx \in StoreTxFiles, cp \in StoreCpFiles : RunFidelite(tx, cp)

UploadKPI ==
    /\ runs < MaxRuns
    /\ \E tx \in StoreTxFiles, cp \in StoreCpFiles : RunKPI(tx, cp)

Next == UploadFidelite \/ UploadKPI

Spec == Init /\ [][Next]_vars

\* the persisted tickets, as the KPI engine of the deployed script reads them
StoreTickets == IF program = "fidelite" THEN transactions ELSE TicketBag(hist_tx)

(***************************************************************************)
(* SpecKpi: the monthly KPI engine fed one ticket per upload, the tickets  *)
(* ranging over organisations, customers and months                        *)
(***************************************************************************)
\* ticket numbers are handed out in sequence: each upload of SpecKpi carries
\* the next ticket number, until TicketSeq is used up
TicketSeq == <<"T1", "T2", "T3">>

KpiLines ==
    {Line(id, Num(50), "", FirstDay(m), o, c, Num(40), Num(25), Num(1)) :
        id \in {TicketSeq[i] : i \in DOMAIN TicketSeq}, m \in Months, o \in Orgs, c \in Customers \cup {""}}

SeenIds == existing_ids(StoreTickets)

NextIds ==
    IF Cardinality(SeenIds) < Len(TicketSeq)
    THEN {TicketSeq[Cardinality(SeenIds) + 1]}
    ELSE {}

KpiTxFiles == {<<l>> : l \in {x \in KpiLines : x.TicketNumber \in NextIds}}

UploadFideliteKpi == \E tx \in KpiTxFiles : RunFidelite(tx, <<>>)

UploadKPIKpi == \E tx \in KpiTxFiles : RunKPI(tx, <<>>)

NextKpi == UploadFideliteKpi \/ UploadKPIKpi

SpecKpi == Init /\ [][NextKpi]_vars

(***************************************************************************)
(* SpecIO: runs in which a column of the transactions file can be missing, *)
(* a call to the store or to Google Sheets can raise, and the parquet      *)
(* history can become unreadable between two runs                          *)
(***************************************************************************)
IOTxFiles ==
    {<<l>> : l \in {x \in StoreLines :
                      x.TicketNumber = "T1" \/ x.ValidationDate = FirstDay(1)}}

IOCpFiles == {<<c>> : c \in StoreCoupons}

\* the calls of analyse_fidelite.py that the environment can make raise
FideliteEnv == {"none", "upsert_transactions", "append_coupons", "publish"}

\* the calls of analyse_KPI.py that the environment can make raise, and the
\* button left unpressed
KPIEnv == {"none", "save_tx", "save_cp", "publish", "no_click"}

\* transactions files that lack one of the needed columns
MissingOne == {TxColumns \ {c} : c \in need}

UploadFideliteIO ==
    /\ runs < MaxRuns
    /\ \E tx \in IOTxFiles, cp \in IOCpFiles, env \in FideliteEnv :
          RunFideliteIO(tx, TxColumns, cp, env)

UploadFideliteColumns ==
    /\ runs < MaxRuns
    /\ \E tx \in IOTxFiles, cp \in IOCpFiles, cols \in MissingOne :
          RunFideliteIO(tx, cols, cp, "none")

UploadKPIIO ==
    /\ runs < MaxRuns
    /\ \E tx \in IOTxFiles, cp \in IOCpFiles, env \in KPIEnv : RunKPIIO(tx, cp, env)

\* the environment damages data/transactions.parquet: pd.read_parquet raises
\* on it until the file is written again
Corrupt ==
    /\ program = "KPI"
    /\ Len(hist_tx) > 0
    /\ ~unreadable
    /\ unreadable' = TRUE
    /\ UNCHANGED <<program, runs, tx_csv, cp_csv, fact, transactions, coupons,
                   hist_tx, hist_cp, kpi, reupload, tx_cols, report, sheet, sessions>>

NextIO == UploadFideliteIO \/ UploadFideliteColumns \/ UploadKPIIO \/ Corrupt

SpecIO == Init /\ [][NextIO]_vars

(***************************************************************************)
(* SpecConc: two sessions of analyse_fidelite.py run on the same DuckDB    *)
(* file, their steps interleaved.  upsert_transactions is not atomic: a    *)
(* session reads existing_ids, then appends the rows it found new          *)
(***************************************************************************)
\* steps 1-2 of the script: session p reads its upload and builds its fact
\* table (the coupons file of these runs is empty)
Build(p, tx) ==
    /\ program = "fidelite"
    /\ pc[p] = "idle"
    /\ runs < MaxRuns
    /\ runs' = runs + 1
    /\ batch' = [batch EXCEPT ![p] = _build_fact_from_transactions(tx)]
    /\ pc' = [pc EXCEPT ![p] = "read"]
    /\ UNCHANGED <<program, tx_csv, cp_csv, fact, transactions, coupons, hist_tx, hist_cp,
                   kpi, reupload, tx_cols, report, sheet, unreadable, seen>>

\* upsert_transactions up to existing_ids = set(existing_ids_df[...]); an
\* empty fact table makes it return at once
ReadIds(p) ==
    /\ pc[p] = "read"
    /\ IF batch[p] = {}
       THEN /\ pc' = [pc EXCEPT ![p] = "rest"]
            /\ UNCHANGED seen
       ELSE /\ seen' = [seen EXCEPT ![p] = existing_ids(transactions)]
            /\ pc' = [pc EXCEPT ![p] = "append"]
    /\ UNCHANGED <<program, runs, tx_csv, cp_csv, fact, transactions, coupons, hist_tx,
                   hist_cp, kpi, reupload, tx_cols, report, sheet, unreadable, batch>>

\* new_fact = df.loc[~df["TransactionID"].isin(existing_ids)], then
\* con.append("transactions", new_fact): the constraint exception of the
\* table's PRIMARY KEY ends the session's run
AppendNew(p) ==
    /\ pc[p] = "append"
    /\ LET nf == {r \in batch[p] : r.TransactionID \notin seen[p]}
       IN IF nf = {}
          THEN /\ pc' = [pc EXCEPT ![p] = "rest"]
               /\ UNCHANGED <<transactions, report>>
          ELSE IF AppendRaises(transactions, nf)
          THEN /\ pc' = [pc EXCEPT ![p] = "idle"]
               /\ report' = {Msg("exception", "upsert_transactions", {})}
               /\ UNCHANGED transactions
          ELSE /\ transactions' = transactions (+) SetToBag(nf)
               /\ pc' = [pc EXCEPT ![p] = "rest"]
               /\ UNCHANGED report
    /\ UNCHANGED <<program, runs, tx_csv, cp_csv, fact, coupons, hist_tx, hist_cp, kpi,
                   reupload, tx_cols, sheet, unreadable, seen, batch>>

\* the rest of the run: append_coupons of an empty frame, compute_kpi, and
\* the publication of a non-empty KPI table
Rest(p) ==
    /\ pc[p] = "rest"
    /\ pc' = [pc EXCEPT ![p] = "idle"]
    /\ kpi' = compute_kpi(transactions, coupons)
    /\ IF kpi' = {}
       THEN /\ report' = {Msg("success", "upsert", {}), Msg("warning", "compute_kpi", {})}
            /\ UNCHANGED sheet
       ELSE /\ report' = {Msg("success", "upsert", {}), Msg("success", "publish", {})}
            /\ sheet' = kpi'
    /\ UNCHANGED <<program, runs, tx_csv, cp_csv, fact, transactions, coupons, hist_tx,
                   hist_cp, reupload, tx_cols, unreadable, seen, batch>>

SessionStart == \E p \in Sessions, tx \in StoreTxFiles : Build(p, tx)
SessionRead == \E p \in Sessions : ReadIds(p)
SessionAppend == \E p \in Sessions : AppendNew(p)
SessionRest == \E p \in Sessions : Rest(p)

InitConc == Init /\ program = "fidelite"

NextConc == SessionStart \/ SessionRead \/ SessionAppend \/ SessionRest

SpecConc == InitConc /\ [][NextConc]_vars

(***************************************************************************)
(* SpecAgg: _build_fact_from_transactions applied to one export whose      *)
(* lines range over tickets and TotalAmount cells                          *)
(***************************************************************************)
AggTotals == {NaN, Num(-5), Num(0), Num(50), Num(70)}

AggLines ==
    {Line(id, t, "", FirstDay(1), "S1", "A", Num(40), Num(25), Num(1)) :
        id \in {"T1", "T2"}, t \in AggTotals}

RECURSIVE SeqsUpTo(_, _)
SeqsUpTo(S, n) ==
    IF n = 0 THEN {<<>>}
    ELSE SeqsUpTo(S, n - 1) \cup {Append(f, a) : f \in SeqsUpTo(S, n - 1), a \in S}

\* the ticket of the specification's example: a tender line of 50, a tender
\* line of 50 labelled COUPON, a product line of gross 40, cost 25, qty 2
ExampleTicket ==
    <<Line("T1", Num(50), "", FirstDay(1), "S1", "A", NaN, NaN, NaN),
      Line("T1", Num(50), "COUPON", FirstDay(1), "S1", "A", NaN, NaN, NaN),
      Line("T1", NaN, "", FirstDay(1), "S1", "A", Num(40), Num(25), Num(2))>>

\* a ticket whose first line carries no customer and whose second line
\* carries customer A
LateCustomerTicket ==
    <<Line("T1", Num(50), "", FirstDay(1), "S1", "", Num(40), Num(25), Num(1)),
      Line("T1", Num(50), "", FirstDay(1), "S1", "A", Num(40), Num(25), Num(1))>>

\* tickets of one line whose tender label is each of the labels of Labels
LabelTickets ==
    {<<Line("T1", Num(50), lbl, FirstDay(1), "S1", "A", Num(40), Num(25), Num(1))>> :
        lbl \in Labels}

AggFiles ==
    SeqsUpTo(AggLines, MaxAggLines) \cup {ExampleTicket, LateCustomerTicket} \cup LabelTickets

InitAgg ==
    /\ program \in {"fidelite", "KPI"}
    /\ runs = 0
    /\ tx_csv \in AggFiles
    /\ cp_csv = <<>>
    /\ fact = {}
    /\ transactions = EmptyBag
    /\ coupons = EmptyBag
    /\ hist_tx = <<>>
    /\ hist_cp = <<>>
    /\ kpi = {}
    /\ reupload = FALSE
    /\ tx_cols = TxColumns
    /\ report = {}
    /\ sheet = {}
    /\ unreadable = FALSE
    /\ pc = [p \in Sessions |-> "idle"]
    /\ seen = [p \in Sessions |-> {}]
    /\ batch = [p \in Sessions |-> {}]

\* step 2 of the script: fact = _build_fact_from_transactions(tx_csv)
BuildFact ==
    /\ program = "fidelite"
    /\ runs = 0
    /\ runs' = 1
    /\ fact' = _build_fact_from_transactions(tx_csv)
    /\ UNCHANGED <<program, tx_csv, cp_csv, transactions, coupons, hist_tx, hist_cp, kpi,
                   reupload, tx_cols, report, sheet, unreadable, sessions>>

\* analyse_KPI.py on the same export, the history being empty: the lines
\* are mapped, deduplicated and saved, and the tickets derived from them
BuildHistory ==
    /\ runs = 0
    /\ RunKPI(tx_csv, cp_csv)

NextAgg == BuildFact \/ BuildHistory

SpecAgg == InitAgg /\ [][NextAgg]_vars

(***************************************************************************)
(* Properties                                                              *)
(***************************************************************************)
\* a step that is one pass of analyse_fidelite.py / of analyse_KPI.py
IsRunFidelite == program = "fidelite" /\ runs' = runs + 1
IsRunKPI == program = "KPI" /\ runs' = runs + 1

StoredIds == existing_ids(transactions)

\* C1: in the DuckDB pipeline, a run that merges the ticket batch of the run
\* before it (the same transactions file) leaves the transactions table with
\* exactly the rows, and the copies of each row, that the first merge left,
\* whatever the table held before the first merge.
C1_UpsertIdempotent ==
    [][(IsRunFidelite /\ runs >= 1 /\ tx_csv' = tx_csv) => transactions' = transactions]_vars

\* C1 witness: a non-empty batch has been merged twice in a row into a table
\* that already held another ticket before the first of the two merges.
C1_Witness ==
    /\ program = "fidelite"
    /\ reupload
    /\ runs = 3
    /\ fact # {}
    /\ fact \subseteq BagToSet(transactions)
    /\ \E r \in BagToSet(transactions) : r.TransactionID \notin {x.TransactionID : x \in fact}

\* C2: a run of analyse_fidelite.py on the very pair of files of the run
\* before it (same transactions file, same coupons file) computes the KPI
\* table the first run computed: every row, every metric.
C2_RerunSameKpi ==
    [][(IsRunFidelite /\ runs >= 1 /\ tx_csv' = tx_csv /\ cp_csv' = cp_csv) => kpi' = kpi]_vars

\* C3: the persisted ticket store never holds two records with the same
\* transaction id: no two rows of the DuckDB table transactions, and no two
\* rows of transactions.parquet, share a TransactionID.
C3_UniqueTransactionId ==
    /\ \A r \in BagToSet(transactions) :
          /\ CopiesIn(r, transactions) = 1
          /\ \A q \in BagToSet(transactions) : q.TransactionID = r.TransactionID => q = r
    /\ \A i, j \in DOMAIN hist_tx :
          hist_tx[i].TransactionID = hist_tx[j].TransactionID => i = j

\* C3 witness: after several runs, the last batch held a ticket whose id was
\* already stored with other values (an overlapping batch was merged).
C3_Witness ==
    /\ runs >= 2
    /\ \/ /\ program = "fidelite"
          /\ \E r \in fact : \E q \in BagToSet(transactions) :
                q.TransactionID = r.TransactionID /\ q # r
       \/ /\ program = "KPI"
          /\ Len(hist_tx) = 2
          /\ Len(tx_csv) = 1
          /\ hist_tx[2].TransactionID = tx_csv[1].TicketNumber
          /\ reupload

\* C4: in the DuckDB pipeline every run leaves each stored row as it is (same
\* values, one copy), including when the batch carries the row's id with
\* other values, and the rows it adds are exactly the batch's rows whose id
\* was not stored.
C4_StoredRowsUntouched ==
    [][IsRunFidelite =>
         /\ \A r \in BagToSet(transactions) :
               CopiesIn(r, transactions') = CopiesIn(r, transactions)
         /\ BagToSet(transactions') \ BagToSet(transactions)
               = {r \in fact' : r.TransactionID \notin StoredIds}]_vars

\* C4 witness: the last batch held both a ticket whose id was already stored
\* with other values (still stored as it was) and a ticket that is now stored
\* as the batch gave it.
C4_Witness ==
    /\ program = "fidelite"
    /\ runs >= 2
    /\ \E r \in fact : \E q \in BagToSet(transactions) :
          /\ q.TransactionID = r.TransactionID
          /\ q # r
          /\ q.CA_HT # r.CA_HT
          /\ q.CustomerID # r.CustomerID
          /\ q.ValidationDate # r.ValidationDate
    /\ \E r \in fact : r \in BagToSet(transactions)

\* C5: in the parquet pipeline a run never alters a stored transaction: every
\* record of transactions.parquet before the run is still in it, with the
\* same values, after the run (and its id is stored once).
C5_ParquetRecordKept ==
    [][IsRunKPI =>
         \A i \in DOMAIN hist_tx :
            /\ \E j \in DOMAIN hist_tx' : hist_tx'[j] = hist_tx[i]
            /\ Cardinality({j \in DOMAIN hist_tx' :
                   hist_tx'[j].TransactionID = hist_tx[i].TransactionID}) = 1]_vars

\* C6: in the DuckDB pipeline the coupons table holds exactly one record per
\* coupon id, and for a coupon of the last upload that record is the upload's.
C6_CouponUpsert ==
    program = "fidelite" =>
        /\ \A c \in BagToSet(coupons) :
              /\ CopiesIn(c, coupons) = 1
              /\ \A d \in BagToSet(coupons) : d.CouponID = c.CouponID => d = c
        /\ (runs >= 1 =>
              \A i \in DOMAIN cp_csv : CouponRow(cp_csv[i]) \in BagToSet(coupons))

\* C7: for every ticket of fact, CA_TTC is the greatest parsed TotalAmount of
\* the ticket's lines (NaN when no line has one): it is reached by a line, no
\* line exceeds it, and it is not the sum of the lines' totals whenever two
\* or more lines repeat the same non-zero total.
C7_TotalIsMax ==
    runs = 1 =>
      \A r \in fact :
        LET rows == LinesOf(tx_csv, r.TransactionID)
            parsed == {i \in DOMAIN rows : rows[i].TotalAmount # NaN}
        IN /\ parsed = {} => r.CA_TTC = NaN
           /\ parsed # {} =>
                /\ r.CA_TTC # NaN
                /\ \E i \in parsed : rows[i].TotalAmount = r.CA_TTC
                /\ \A i \in parsed : rows[i].TotalAmount[1] <= r.CA_TTC[1]
           /\ (/\ Cardinality(parsed) >= 2
               /\ \A i, j \in parsed : rows[i].TotalAmount = rows[j].TotalAmount
               /\ \A i \in parsed : rows[i].TotalAmount # Num(0))
              => r.CA_TTC[1] # SumSeq([i \in DOMAIN rows |-> FillZero(rows[i].TotalAmount)])

\* C7 witness: a built ticket whose three lines all repeat the total 50.
C7_Witness ==
    /\ runs = 1
    /\ \E r \in fact :
          /\ r.CA_TTC = Num(50)
          /\ Len(LinesOf(tx_csv, r.TransactionID)) = 3
          /\ \A i \in 1 .. 3 : LinesOf(tx_csv, r.TransactionID)[i].TotalAmount = Num(50)

\* S(m) of organisation o: the identified customers with a stored ticket of
\* o dated in month m
Active(m, o) ==
    {r.CustomerID : r \in {x \in BagToSet(StoreTickets) :
                              x.is_client /\ x.month = m /\ x.OrganisationID = o}}

\* two ratio cells denote the same value
SameRatio(a, b) ==
    IF a = NaN \/ b = NaN THEN a = b ELSE a[1] * b[2] = b[1] * a[2]

\* C8: in every KPI row (m, o) with identified customers, Retention_rate is
\* |S(m-1) /\ S(m)| / |S(m-1)| for the calendar month m-1 of o, and undefined
\* when o has no identified customer in the calendar month m-1.
C8_RetentionOverCalendarMonth ==
    \A row \in kpi :
        LET cur == Active(row.month, row.OrganisationID)
            prev == Active(row.month - 1, row.OrganisationID)
        IN cur # {} =>
             SameRatio(row.Retention_rate,
                       IF prev = {} THEN NaN
                       ELSE <<Cardinality(prev \cap cur), Cardinality(prev)>>)

\* C9: in every KPI row Retention_rate is undefined or a ratio n/d with
\* 0 <= n <= d and d > 0, and it is d/d when the customers of the calendar
\* month before and those of the row's month are the same non-empty set.
C9_RetentionBounds ==
    \A row \in kpi :
        LET rate == row.Retention_rate
            cur == Active(row.month, row.OrganisationID)
            prev == Active(row.month - 1, row.OrganisationID)
        IN /\ rate # NaN => (rate[2] > 0 /\ 0 <= rate[1] /\ rate[1] <= rate[2])
           /\ (prev = cur /\ cur # {}) => (rate # NaN /\ rate[1] = rate[2])

\* C9 witness: the KPI table holds a row whose month and the month before
\* have the same customers (rate 1/1) and a row that retained none (0/1).
C9_Witness ==
    /\ \E row \in kpi :
          /\ Active(row.month, row.OrganisationID) # {}
          /\ Active(row.month - 1, row.OrganisationID) = Active(row.month, row.OrganisationID)
          /\ row.Retention_rate = <<1, 1>>
    /\ \E row \in kpi : row.Retention_rate = <<0, 1>>

\* the scenario of C10: customer c was active at organisation a in month
\* m-1, is active at b and not at a in month m, and was never at b before
MovedOrg(c, a, b, m) ==
    /\ a # b
    /\ c \in Active(m - 1, a)
    /\ c \in Active(m, b)
    /\ c \notin Active(m, a)
    /\ \A m2 \in Months : m2 < m => c \notin Active(m2, b)

RatioRule(q, n, d) ==
    IF d = 0 THEN q = NaN ELSE (q # NaN /\ q[1] * d = n * q[2])

\* C11: every ratio metric of a KPI row of compute_kpi is undefined exactly
\* when its denominator is zero and is numerator/denominator otherwise, a
\* count or an amount that no ticket or coupon feeds counting as zero (no
\* coupon used in a month with coupons emitted gives the rate 0).
C11_RatioRule ==
    program = "fidelite" =>
      \A row \in kpi :
        /\ RatioRule(row.Taux_marge_avant, row.Marge_avant_coupon, row.CA_HT)
        /\ RatioRule(row.Taux_marge_apres, row.Marge_apres_coupon, row.CA_HT)
        /\ RatioRule(row.Taux_association_client,
                     FillZero(row.Transactions_client), row.Transactions)
        /\ RatioRule(row.Recurrence,
                     FillZero(row.Transactions_client), FillZero(row.Client))
        /\ RatioRule(row.Panier_moyen_HT, row.CA_HT, row.Transactions)
        /\ RatioRule(row.Taux_utilisation_bons_montant,
                     FillZero(row.Montant_coupons_utilise),
                     FillZero(row.Montant_coupons_emis))
        /\ RatioRule(row.Taux_utilisation_bons_quantite,
                     FillZero(row.Coupon_utilise), FillZero(row.Coupon_emis))
        /\ RatioRule(row.Voucher_share, row.CA_paid_with_coupons, row.CA_HT)

\* C12: every built ticket has CA_paid_with_coupons_HT equal to its CA_TTC
\* when Has_Coupon and to 0 otherwise, and the example ticket is built with
\* CA_TTC 50, Has_Coupon, 50 paid by coupon and a net margin of 15.
C12_CouponAmountIsTotal ==
    runs = 1 =>
      /\ \A r \in fact :
            r.CA_paid_with_coupons_HT = (IF r.Has_Coupon THEN FillZero(r.CA_TTC) ELSE 0)
      /\ tx_csv = ExampleTicket =>
            \A r \in fact :
               /\ r.CA_TTC = Num(50)
               /\ r.Has_Coupon
               /\ r.CA_paid_with_coupons_HT = 50
               /\ r.Estimated_Net_Margin_HT = 15

\* the month of the earliest stored ticket of customer c, over the whole
\* transactions table
EarliestMonth(c) ==
    SetMin({r.month : r \in {x \in BagToSet(transactions) : x.is_client /\ x.CustomerID = c}})

\* C13: in every KPI row (m, o) of compute_kpi, "Nouveau client" counts the
\* customers of the row whose earliest ticket over the whole transactions
\* table is dated in m, and "Client qui reviennent" counts the row's other
\* customers; this holds after every run, also one that stores a ticket
\* dated before the customer's tickets already stored.
C13_NewCustomerOverHistory ==
    program = "fidelite" =>
      \A row \in kpi :
        LET cur == Active(row.month, row.OrganisationID)
            new == {c \in cur : EarliestMonth(c) = row.month}
        IN cur # {} =>
             /\ row.Nouveau_client = Num(Cardinality(new))
             /\ row.Client_qui_reviennent = Num(Cardinality(cur \ new))

\* C13 witness: the last run stored a ticket of a customer dated in a month
\* before every ticket the store already held for that customer; the
\* customer is new in that month's row, and returning in the row of the later
\* month, where no customer is new any more.
C13_Witness ==
    /\ program = "fidelite"
    /\ runs >= 2
    /\ \E r \in fact :
          /\ r.is_client
          /\ r \in BagToSet(transactions)
          /\ \A q \in BagToSet(transactions) :
                (q.is_client /\ q.CustomerID = r.CustomerID /\ q # r) => q.month > r.month
          /\ \E q \in BagToSet(transactions), row \in kpi :
                /\ q.CustomerID = r.CustomerID
                /\ q.month > r.month
                /\ row.month = q.month
                /\ row.OrganisationID = q.OrganisationID
                /\ row.Nouveau_client = Num(0)
                /\ row.Client_qui_reviennent = Num(1)
          /\ \E row \in kpi :
                /\ row.month = r.month
                /\ row.OrganisationID = r.OrganisationID
                /\ row.Nouveau_client = Num(1)

\* C14: every stored ticket has Estimated_Net_Margin_HT = CA_HT -
\* Purch_Total_HT, and every KPI row (m, o) has "Marge net HT avant coupon"
\* equal to the sum of the net margins of the group's tickets and "Marge net
\* HT apres coupon" equal to the margin before coupons minus "Montant coupons
\* utilise", taken as 0 when no coupon of o was used in m.
C14_MarginInvariant ==
    program = "fidelite" =>
      /\ \A r \in BagToSet(transactions) :
            r.Estimated_Net_Margin_HT = r.CA_HT - r.Purch_Total_HT
      /\ \A row \in kpi :
            LET g == GroupRows(transactions, row.month, row.OrganisationID)
                used == IF row.Montant_coupons_utilise = NaN THEN 0
                        ELSE row.Montant_coupons_utilise[1]
            IN /\ row.Marge_avant_coupon =
                     BagSum(g, [r \in BagToSet(g) |-> r.Estimated_Net_Margin_HT])
               /\ row.Marge_apres_coupon = row.Marge_avant_coupon - used

\* C14 witness: the KPI table holds a row of a month in which a coupon was
\* used (the margin after coupons is lower than the margin before) and a row
\* of a month without any used coupon (both margins are equal).
C14_Witness ==
    /\ program = "fidelite"
    /\ \E row \in kpi :
          /\ row.Montant_coupons_utilise # NaN
          /\ row.Montant_coupons_utilise[1] > 0
          /\ row.Marge_apres_coupon < row.Marge_avant_coupon
    /\ \E row \in kpi :
          /\ row.Montant_coupons_utilise = NaN
          /\ row.Marge_avant_coupon > 0
          /\ row.Marge_apres_coupon = row.Marge_avant_coupon

\* the calls that write the persistent store
StoreSteps == {"upsert_transactions", "append_coupons", "save_tx", "save_cp"}

\* C15: a run in which a write to the store raises leaves the store (both
\* DuckDB tables, both parquet files) exactly as it was before the run; any
\* other run that reaches the merge stores the tickets and the coupons of
\* its upload.
C15_AllOrNothing ==
    [][(runs' = runs + 1) =>
         IF \E m \in report' : m.level = "exception" /\ m.step \in StoreSteps
         THEN <<transactions, coupons, hist_tx, hist_cp>>' = <<transactions, coupons, hist_tx, hist_cp>>
         ELSE \/ need_missing(tx_cols')
              \/ /\ program = "fidelite"
                 /\ \A r \in fact' : r.TransactionID \in existing_ids(transactions')
                 /\ \A i \in DOMAIN cp_csv' : CouponRow(cp_csv'[i]) \in BagToSet(coupons')
              \/ /\ program = "KPI"
                 /\ \A i \in DOMAIN tx_csv' :
                       \E j \in DOMAIN hist_tx' : hist_tx'[j].TransactionID = tx_csv'[i].TicketNumber
                 /\ hist_cp' = map_cp(cp_csv')]_vars

\* C16: a pass of analyse_fidelite.py on a transactions file that lacks one
\* of the needed columns shows one error that quotes the columns received,
\* and ends there: it is one pass (no second attempt), the tables
\* transactions and coupons are as before, no fact table is built, no KPI
\* table is computed or published.
C16_MissingColumnIsFatal ==
    [][(program = "fidelite" /\ runs' = runs + 1 /\ (\E c \in need : c \notin tx_cols')) =>
         /\ report' = {[level |-> "error", step |-> "columns", columns |-> tx_cols']}
         /\ transactions' = transactions
         /\ coupons' = coupons
         /\ <<fact, kpi, sheet>>' = <<fact, kpi, sheet>>]_vars

\* C16 witness: the last run was given a file without one needed column and
\* a ticket that the store, which holds other tickets, still does not hold.
C16_Witness ==
    /\ program = "fidelite"
    /\ runs >= 2
    /\ \E c \in need : c \notin tx_cols
    /\ \E m \in report : m.level = "error" /\ m.columns = tx_cols
    /\ transactions # EmptyBag
    /\ \E i \in DOMAIN tx_csv : tx_csv[i].TicketNumber \notin existing_ids(transactions)

\* C17: a pass of analyse_KPI.py that finds data/transactions.parquet
\* unreadable and whose writes succeed stores exactly the tickets of the
\* current upload (the history counts as empty) and shows a warning about
\* the recovery.
C17_UnreadableHistoryRebuilt ==
    [][(IsRunKPI /\ unreadable /\ ~(\E m \in report' : m.level = "exception")) =>
         /\ hist_tx' = full_tx_Of(<<>>, tx_csv')
         /\ \E m \in report' : m.level = "warning"]_vars

\* C18: a run whose publication to Google Sheets fails keeps what it merged
\* (the tickets and the coupons of the upload are in the store, as a run
\* without failure leaves them), has computed its KPI table from the merged
\* store, and reports no other failure than the publication.
C18_PublishFailureKeepsMerge ==
    [][((runs' = runs + 1) /\ (\E m \in report' : m.step = "publish" /\ m.level \notin {"success"})) =>
         /\ program = "fidelite" =>
               /\ transactions' = upsert_transactions(transactions, fact')
               /\ \A r \in fact' : r.TransactionID \in existing_ids(transactions')
               /\ coupons' = append_coupons(coupons, _build_coupon_table(cp_csv'))
               /\ kpi' = compute_kpi(transactions', coupons')
               /\ kpi' # {}
         /\ program = "KPI" =>
               /\ hist_tx' = full_tx_Of(load_parquet(unreadable, hist_tx), tx_csv')
               /\ hist_cp' = map_cp(cp_csv')
               /\ kpi' = kpi_KPI(hist_tx', map_cp(cp_csv'))
               /\ kpi' # {}
         /\ \A m \in report' : m.level \in {"error", "exception"} => m.step = "publish"]_vars

\* C18 witness: the publication of the last run failed, the run had added a
\* ticket and a coupon to a store that held others, and the KPI table of the
\* run is not the one in the sheet.
C18_Witness ==
    /\ runs >= 2
    /\ \E m \in report : m.step = "publish" /\ m.level \in {"error", "exception"}
    /\ kpi # {}
    /\ sheet # kpi
    /\ \/ /\ program = "fidelite"
          /\ fact # {}
          /\ fact \subseteq BagToSet(transactions)
          /\ \E r \in BagToSet(transactions) : r \notin fact
          /\ BagCardinality(coupons) >= 2
       \/ /\ program = "KPI"
          /\ Len(hist_tx) >= 2
          /\ hist_tx[Len(hist_tx)].TransactionID = tx_csv[1].TicketNumber
          /\ hist_cp = map_cp(cp_csv)

\* C19: under every interleaving of two sessions of analyse_fidelite.py on
\* the same store, each reading existing_ids before or after the other
\* appends, the table transactions holds as many rows as it holds distinct
\* TransactionIDs.
C19_DedupUnderInterleaving ==
    BagCardinality(transactions) = Cardinality(existing_ids(transactions))

\* C19 witness: a session read existing_ids before the other session
\* appended a ticket that both uploads hold, with other values; its own
\* append has been rejected and the table holds the other session's row.
C19_Witness ==
    \E p \in Sessions :
       /\ pc[p] = "idle"
       /\ \E m \in report : m.level = "exception" /\ m.step = "upsert_transactions"
       /\ \E r \in batch[p] :
             /\ r.TransactionID \notin seen[p]
             /\ r.TransactionID \in existing_ids(transactions)
             /\ r \notin BagToSet(transactions)

\* a line that carries a tender label records a payment, not a product sale
IsTenderLine(l) == l.Label # ""

\* C20: for every ticket of fact, CA_HT, Purch_Total_HT and Qty_Ticket are
\* the sums of LineGrossAmount, lineTotalPurchasingAmount and Quantity over
\* the ticket's lines that are not tender lines.
C20_SumsOverProductLines ==
    \A r \in fact :
       LET rows == LinesOf(tx_csv, r.TransactionID)
           prod == SelectSeq(rows, LAMBDA l : ~IsTenderLine(l))
       IN /\ r.CA_HT = NanSum(Column(prod, "LineGrossAmount"))
          /\ r.Purch_Total_HT = NanSum(Column(prod, "lineTotalPurchasingAmount"))
          /\ r.Qty_Ticket = NanSum(Column(prod, "Quantity"))

\* C21: in analyse_KPI.py, the CA_HT_ticket of every ticket derived from the
\* saved history equals the sum of the LineGrossAmount of all the lines that
\* the upload holds for that transaction, whatever their number.
C21_TicketRevenueSumsLines ==
    (program = "KPI" /\ runs = 1) =>
       \A r \in BagToSet(TicketBag(hist_tx)) :
          r.CA_HT = NanSum(Column(LinesOf(tx_csv, r.TransactionID), "LineGrossAmount"))

\* the first value of a sequence of CustomerId cells that is not a missing
\* customer, "nan" when there is none
RECURSIVE FirstCustomer(_)
FirstCustomer(cells) ==
    IF cells = <<>> THEN "nan"
    ELSE IF Head(cells) \notin MissingCustomer THEN Head(cells)
    ELSE FirstCustomer(Tail(cells))

\* C22: every built ticket is stored with the first customer that any of its
\* lines carries: a ticket whose first line has no CustomerId and whose later
\* line has one is stored with that customer, not as an anonymous sale.
C22_ContextFirstNonNull ==
    (program = "fidelite" /\ runs = 1) =>
       \A r \in fact :
          r.CustomerID = FirstCustomer(Column(LinesOf(tx_csv, r.TransactionID), "CustomerId"))

\* C23: a built ticket has Has_Coupon exactly when one of its lines has a
\* Label equal to COUPON; a label that only contains the word does not set it.
C23_CouponLabelEquality ==
    (program = "fidelite" /\ runs = 1) =>
       \A r \in fact :
          r.Has_Coupon <=>
             \E i \in DOMAIN LinesOf(tx_csv, r.TransactionID) :
                LinesOf(tx_csv, r.TransactionID)[i].Label = "COUPON"

\* the distinct stored coupons of organisation o used in month m
DistinctUsed(m, o) ==
    {c \in BagToSet(coupons) : c.UseDate # NaT /\ c.month_use = m /\ c.OrganisationID = o}

\* C24: after a run of analyse_fidelite.py, for every (month, organisation)
\* in which a stored coupon was used, the KPI table has a row whose
\* Montant_coupons_utilise is the sum of Value_Used_Line over the distinct
\* coupons used there, each counted once, whether or not a ticket exists for
\* that (month, organisation).
C24_CouponAmountUsed ==
    (program = "fidelite" /\ runs >= 1) =>
       \A m \in Months, o \in Orgs :
          DistinctUsed(m, o) # {} =>
             \E row \in kpi :
                /\ row.month = m
                /\ row.OrganisationID = o
                /\ row.Montant_coupons_utilise =
                      Num(SumSet(DistinctUsed(m, o),
                                 [c \in DistinctUsed(m, o) |-> c.Value_Used_Line]))

\* C25: in the KPI table of analyse_KPI.py, Nouveau_client of a row never
\* exceeds Clients, the number of distinct customers of the row, and
\* Client_qui_reviennent is never negative, also when a customer has several
\* tickets in the month of their first purchase.
C25_NewWithinCustomers ==
    program = "KPI" =>
       \A row \in kpi :
          row.Clients # NaN =>
             /\ Val(row.Nouveau_client) <= Val(row.Clients)
             /\ Val(row.Client_qui_reviennent) >= 0

\* C25 witness: a KPI row of analyse_KPI.py whose group holds two tickets of
\* one customer, in the month of that customer's first purchase.
C25_Witness ==
    /\ program = "KPI"
    /\ \E row \in kpi :
          \E r, q \in BagToSet(ClientRows(TicketBag(hist_tx), row.month, row.OrganisationID)) :
             /\ r.TransactionID # q.TransactionID
             /\ r.CustomerID = q.CustomerID
             /\ first_month(TicketBag(hist_tx), r.CustomerID) = row.month
             /\ row.Clients = Num(1)

\* C26: every pass of analyse_KPI.py leaves in coupons.parquet exactly the
\* mapped coupons of its upload, in order (what was stored before is gone),
\* and the coupon columns of its KPI rows count the coupons of that upload
\* alone.
C26_CouponStoreIsLastUpload ==
    [][IsRunKPI =>
         /\ hist_cp' = map_cp(cp_csv')
         /\ \A row \in kpi' :
               LET used == {i \in DOMAIN cp_csv' :
                              /\ cp_csv'[i].UseDate # NaT
                              /\ _month_str(cp_csv'[i].UseDate) = row.month
                              /\ cp_csv'[i].OrganisationId = row.OrganisationID}
               IN row.Coupon_utilise =
                     (IF used = {} THEN NaN
                      ELSE Num(Cardinality({cp_csv'[i].CouponId : i \in used})))]_vars

\* C26 witness: after a second or later pass of analyse_KPI.py, the store
\* holds the one used coupon of the upload and a KPI row counts it.
C26_Witness ==
    /\ program = "KPI"
    /\ runs >= 2
    /\ Len(hist_cp) = 1
    /\ hist_cp = map_cp(cp_csv)
    /\ \E row \in kpi : row.Coupon_utilise = Num(1)

====
